---- MODULE Spec2Model ----
(***************************************************************************)
(* micro-mood-timeline: the mock backend (src/src/api/mockServer.ts), the  *)
(* optimistic Ledger (src/src/stores/moodStore.ts), the mutation hooks     *)
(* with their query cache (src/src/api/queries.ts) and the realtime        *)
(* subscription (src/src/hooks/useMoodSync.ts).                            *)
(*                                                                         *)
(* One action is one JavaScript task: a user intent with the microtasks it *)
(* starts (onMutate up to the call of the mock server), or the timer that  *)
(* ends a simulated latency with everything that runs before the next      *)
(* timer (the server body, the synchronous listeners, onSuccess / onError  *)
(* and onSettled).                                                         *)
(***************************************************************************)
EXTENDS Integers, Sequences, FiniteSets, TLC

\* ------------------------------------------------------------------ bounds
MaxMutations == 2
StartTime == 1
DayLength == 2
MaxDetailQueries == 1
MaxCallbacks == 3
MaxCalls == 5
MaxStamp == 7
MaxRecords == 2
MaxTime == 3
MaxSyncs == 2

\* ------------------------------------------------------- program constants
QueryRetry == 2
MutationRetry == 1

VARIABLES
    now,            \* Date.now()
    storageFull,    \* localStorage.setItem throws (quota exceeded)
    database,       \* mockServer: database.moods
    storage,        \* localStorage['micromood-mock-db'].moods
    page,           \* the mounted route: "home" or "history"
    enableRealtime, \* settings store: enableRealtime
    store,          \* useMoodStore: entries, pendingEntries, error
    today,          \* query ['moods','today']
    lists,          \* query family ['moods','list', filter]
    detail,         \* queries ['moods','detail', id]
    mutations,      \* the mutations issued so far, in order of issue
    eventListeners, \* mockServer: eventListeners, in insertion order
    probe,          \* the last direct call of an operation, with its result
    moodSync        \* one useMoodSync instance taken on its own

vars == <<now, storageFull, database, storage,
          page, enableRealtime, store, today, lists, detail, mutations,
          eventListeners, probe, moodSync>>

\* ------------------------------------------------------------------ values
NoNote == "undefined"
NoId == [prefix |-> "none", uuid |-> 0]

\* uuid() never returns a value twice; the model names each value by the
\* call that draws it: draw k of mutation i
uuid(i, k) == 10 * i + k

TempId(u) == [prefix |-> "temp-", uuid |-> u]
Uuid(u) == [prefix |-> "", uuid |-> u]
StartsWithTemp(id) == id.prefix = "temp-"

\* What the forms submit: QuickMoodInput sends category and level (the
\* n-th intent of a run sends the n-th of these), MoodEntryCard sends the
\* edited level and category.
CreateInput(n) ==
    IF n % 2 = 1 THEN [category |-> "calm", level |-> 3, note |-> NoNote]
    ELSE [category |-> "happy", level |-> 4, note |-> NoNote]

UpdateInputs == { ("level" :> 5 @@ "category" :> "tired") }

SampleEntry ==
    [id |-> Uuid(0), category |-> "focused", level |-> 2, note |-> NoNote,
     timestamp |-> 0]

EmptyMap == [k \in {} |-> NoNote]

\* ------------------------------------------------------------ array helpers
Ids(s) == { s[i].id : i \in 1..Len(s) }

\* Array.prototype.findIndex, 1-based; 0 stands for -1
FindIndex(s, id) ==
    IF \E i \in 1..Len(s) : s[i].id = id
    THEN CHOOSE i \in 1..Len(s) :
             s[i].id = id /\ \A j \in 1..(i - 1) : s[j].id # id
    ELSE 0

WithoutId(s, id) == SelectSeq(s, LAMBDA e : e.id # id)

\* { ...entry, ...updates }  and  Object.assign(entry, updates)
Merge(e, u) == [f \in DOMAIN e |-> IF f \in DOMAIN u THEN u[f] ELSE e[f]]

RECURSIVE InsertDesc(_, _)
InsertDesc(sorted, e) ==
    IF sorted = <<>> THEN <<e>>
    ELSE IF Head(sorted).timestamp >= e.timestamp
         THEN <<Head(sorted)>> \o InsertDesc(Tail(sorted), e)
         ELSE <<e>> \o sorted

\* moods.sort((a, b) => b.timestamp - a.timestamp): stable, descending
RECURSIVE SortDesc(_)
SortDesc(s) ==
    IF s = <<>> THEN <<>>
    ELSE InsertDesc(SortDesc(SubSeq(s, 1, Len(s) - 1)), s[Len(s)])

\* --------------------------------------------- Ledger (stores/moodStore.ts)
NoError == "null"

addEntry(S, category, level, note, u, t) ==
    LET tempId == TempId(u)
        entry == [id |-> tempId, category |-> category, level |-> level,
                  note |-> note, timestamp |-> t]
    IN [S EXCEPT !.entries = <<entry>> \o @,
                 !.pendingEntries = (tempId :> entry) @@ @]

updateEntry(S, id, updates) ==
    LET index == FindIndex(S.entries, id)
    IN IF index # 0
       THEN [S EXCEPT !.entries[index] = Merge(@, updates)]
       ELSE S

MapDelete(m, k) == [x \in DOMAIN m \ {k} |-> m[x]]

deleteEntry(S, id) ==
    [S EXCEPT !.entries = WithoutId(@, id),
              !.pendingEntries = MapDelete(@, id)]

\* A confirm that adds the confirmed entry when it finds nothing to replace
confirmOrInsert(S, tempId, confirmedEntry) ==
    LET index == FindIndex(S.entries, tempId)
    IN [S EXCEPT !.entries = IF index # 0
                             THEN [@ EXCEPT ![index] = confirmedEntry]
                             ELSE <<confirmedEntry>> \o @,
                 !.pendingEntries = MapDelete(@, tempId)]

\* A confirm that moves the confirmed entry to the front
confirmToFront(S, tempId, confirmedEntry) ==
    LET index == FindIndex(S.entries, tempId)
    IN [S EXCEPT !.entries = IF index # 0
                             THEN <<confirmedEntry>> \o WithoutId(@, tempId)
                             ELSE @,
                 !.pendingEntries = MapDelete(@, tempId)]

\* A reject that forgets the pending bookkeeping but keeps the entry
rejectPendingOnly(S, tempId, error) ==
    [S EXCEPT !.pendingEntries = MapDelete(@, tempId), !.error = error]

\* An ingest without the duplicate check
addRealtimeEntryAlways(S, entry) == [S EXCEPT !.entries = <<entry>> \o @]

confirmEntry(S, tempId, confirmedEntry) ==
    LET index == FindIndex(S.entries, tempId)
    IN [S EXCEPT !.entries = IF index # 0
                             THEN [@ EXCEPT ![index] = confirmedEntry]
                             ELSE @,
                 !.pendingEntries = MapDelete(@, tempId)]

rejectEntry(S, tempId, error) ==
    [S EXCEPT !.entries = WithoutId(@, tempId),
              !.pendingEntries = MapDelete(@, tempId),
              !.error = error]

addRealtimeEntry(S, entry) ==
    IF entry.id \notin Ids(S.entries)
    THEN [S EXCEPT !.entries = <<entry>> \o @]
    ELSE S

\* --------------------------------------- Remote Simulator (api/mockServer.ts)
NoData == [id |-> NoId]
NotFound == "Mood not found"
StorageError == "QuotaExceededError"

\* What a listener can observe of the mutation while emit runs.
Reflects(type, payload, db) ==
    CASE type = "mood:created" -> Len(db) > 0 /\ db[1] = payload
      [] type = "mood:updated" -> \E i \in 1..Len(db) : db[i] = payload
      [] type = "mood:deleted" -> payload.id \notin Ids(db)
      [] OTHER -> TRUE

\* mockEventEmitter.emit, as called with the store (db) and its persisted
\* snapshot (st) in the state they have at the call
Event(type, payload, db, st, t) ==
    [type |-> type, payload |-> payload,
     durable |-> Reflects(type, payload, db) /\ Reflects(type, payload, st)]

Threw(db, st, error) ==
    [database |-> db, storage |-> st, ok |-> FALSE, error |-> error,
     data |-> NoData, events |-> <<>>]

Returned(db, st, data, events) ==
    [database |-> db, storage |-> st, ok |-> TRUE, error |-> "none",
     data |-> data, events |-> events]

\* A create that publishes before it saves
createEmitFirst(db, st, entry, u, saveOk, t) ==
    LET newMood == [id |-> Uuid(u), category |-> entry.category,
                    level |-> entry.level, note |-> entry.note,
                    timestamp |-> entry.timestamp]
        db1 == <<newMood>> \o db
    IN IF ~saveOk THEN Threw(db1, st, StorageError)
       ELSE Returned(db1, db1, newMood,
                     <<Event("mood:created", newMood, db1, st, t)>>)

\* A delete that treats a missing id as already deleted
deleteIdempotent(db, st, id, saveOk, t) ==
    LET index == FindIndex(db, id)
        db1 == WithoutId(db, id)
    IN IF ~saveOk THEN Threw(db1, st, StorageError)
       ELSE Returned(db1, db1, NoData,
                     <<Event("mood:deleted", [id |-> id], db1, db1, t)>>)

\* A create that takes its record back when the save fails
createAllOrNothing(db, st, entry, u, saveOk, t) ==
    LET newMood == [id |-> Uuid(u), category |-> entry.category,
                    level |-> entry.level, note |-> entry.note,
                    timestamp |-> entry.timestamp]
        db1 == <<newMood>> \o db
    IN IF ~saveOk THEN Threw(db, st, StorageError)
       ELSE Returned(db1, db1, newMood,
                     <<Event("mood:created", newMood, db1, db1, t)>>)

\* saveOk = FALSE: localStorage.setItem throws inside saveDatabase
create(db, st, entry, u, saveOk, t) ==
    LET newMood == [id |-> Uuid(u), category |-> entry.category,
                    level |-> entry.level, note |-> entry.note,
                    timestamp |-> entry.timestamp]
        db1 == <<newMood>> \o db
    IN IF ~saveOk THEN Threw(db1, st, StorageError)
       ELSE Returned(db1, db1, newMood,
                     <<Event("mood:created", newMood, db1, db1, t)>>)

update(db, st, id, updates, saveOk, t) ==
    LET index == FindIndex(db, id)
    IN IF index = 0 THEN Threw(db, st, NotFound)
       ELSE LET db1 == [db EXCEPT ![index] = Merge(@, updates)]
            IN IF ~saveOk THEN Threw(db1, st, StorageError)
               ELSE Returned(db1, db1, db1[index],
                        <<Event("mood:updated", db1[index], db1, db1, t)>>)

delete(db, st, id, saveOk, t) ==
    LET index == FindIndex(db, id)
    IN IF index = 0 THEN Threw(db, st, NotFound)
       ELSE LET db1 == SubSeq(db, 1, index - 1) \o SubSeq(db, index + 1, Len(db))
            IN IF ~saveOk THEN Threw(db1, st, StorageError)
               ELSE Returned(db1, db1, NoData,
                        <<Event("mood:deleted", [id |-> id], db1, db1, t)>>)

getById(db, st, id) ==
    IF \E i \in 1..Len(db) : db[i].id = id
    THEN Returned(db, st, db[FindIndex(db, id)], <<>>)
    ELSE Threw(db, st, NotFound)

\* The local calendar: a day lasts DayLength (24 hours) except where the
\* clocks change; day 1 is the day the clocks go back (one unit longer) and
\* day 2 the day they go forward (one unit shorter).
LocalDayLength(d) ==
    CASE d = 1 -> DayLength + 1
      [] d = 2 -> DayLength - 1
      [] OTHER -> DayLength

RECURSIVE LocalDayFrom(_, _, _)
LocalDayFrom(d, start, t) ==
    IF t < start + LocalDayLength(d) THEN [day |-> d, start |-> start]
    ELSE LocalDayFrom(d + 1, start + LocalDayLength(d), t)

\* The local day that holds the instant t, and its first instant
LocalDay(t) == LocalDayFrom(0, 0, t)

\* new Date(now.getFullYear(), now.getMonth(), now.getDate()).getTime()
StartOfDay(t) == LocalDay(t).start

getToday(db, t) ==
    LET startOfDay == StartOfDay(t)
        endOfDay == startOfDay + DayLength - 1
    IN SortDesc(SelectSeq(db, LAMBDA m :
                   m.timestamp >= startOfDay /\ m.timestamp <= endOfDay))

\* A MoodFilter is a function on the fields it has; categories and levels
\* are arrays used only through includes and length, kept as sets.
\* if (filter?.startDate): the field is there and is not 0
TruthyNumber(filter, field) == field \in DOMAIN filter /\ filter[field] # 0

\* if (filter?.categories?.length): the field is there and is not empty
TruthyLength(filter, field) ==
    field \in DOMAIN filter /\ Cardinality(filter[field]) # 0

getAll(db, filter) ==
    LET m1 == IF TruthyNumber(filter, "startDate")
              THEN SelectSeq(db, LAMBDA m : m.timestamp >= filter.startDate)
              ELSE db
        m2 == IF TruthyNumber(filter, "endDate")
              THEN SelectSeq(m1, LAMBDA m : m.timestamp <= filter.endDate)
              ELSE m1
        m3 == IF TruthyLength(filter, "categories")
              THEN SelectSeq(m2, LAMBDA m : m.category \in filter.categories)
              ELSE m2
        m4 == IF TruthyLength(filter, "levels")
              THEN SelectSeq(m3, LAMBDA m : m.level \in filter.levels)
              ELSE m3
        moods == SortDesc(m4)
    IN [data |-> moods, total |-> Len(moods)]

\* A JavaScript number that is an integer or a quotient of two: num / den in
\* lowest terms; 0 / 0 is NaN
RECURSIVE Gcd(_, _)
Gcd(a, b) == IF b = 0 THEN a ELSE Gcd(b, a % b)

Number(n) == [num |-> n, den |-> 1]

Divide(a, b) ==
    IF b = 0 THEN [num |-> 0, den |-> 0]
    ELSE [num |-> a \div Gcd(a, b), den |-> b \div Gcd(a, b)]

RECURSIVE SumLevels(_)
SumLevels(s) == IF s = <<>> THEN 0 ELSE Head(s).level + SumLevels(Tail(s))

\* byCategory[m.category] = (byCategory[m.category] || 0) + 1, over moods
CountByCategory(moods) ==
    [c \in { moods[i].category : i \in 1..Len(moods) } |->
        Cardinality({ i \in 1..Len(moods) : moods[i].category = c })]

\* Statistics that divide without looking at the count
getStatsUnguarded(db, startDate, endDate) ==
    LET moods == SelectSeq(db, LAMBDA m :
                     m.timestamp >= startDate /\ m.timestamp <= endDate)
    IN [average |-> Divide(SumLevels(moods), Len(moods)),
        count |-> Len(moods),
        byCategory |-> CountByCategory(moods)]

getStats(db, startDate, endDate) ==
    LET moods == SelectSeq(db, LAMBDA m :
                     m.timestamp >= startDate /\ m.timestamp <= endDate)
        total == SumLevels(moods)
    IN [average |-> IF Len(moods) # 0 THEN Divide(total, Len(moods))
                    ELSE Number(0),
        count |-> Len(moods),
        byCategory |-> CountByCategory(moods)]

\* ------------------------------------------------ query cache (QueryClient)
\* A query: hasData/data (getQueryData), isInvalidated, fetching (a fetch whose
\* result will still be written; a cancelled fetch is dropped on arrival).
NoQuery == [hasData |-> FALSE, data |-> <<>>, isInvalidated |-> FALSE,
            fetching |-> FALSE]

\* The list family stands for its one mounted member; no claim reads its rows
NoList == [hasData |-> FALSE, isInvalidated |-> FALSE, fetching |-> FALSE]

\* A detail query also keeps delay: the time its retryer sleeps before the
\* next attempt (0 while it does not sleep)
NoDetail == [hasData |-> FALSE, data |-> NoData, fetching |-> FALSE,
             failureCount |-> 0, error |-> "none", delay |-> 0]

\* retryDelay: (attemptIndex) => Math.min(1000 * 2 ** attemptIndex, 30000);
\* the retryer passes the number of failures before the one just counted
retryDelay(attemptIndex) ==
    IF 1000 * 2^attemptIndex < 30000 THEN 1000 * 2^attemptIndex ELSE 30000

cancelQueries(q) == [q EXCEPT !.fetching = FALSE]

getQueryData(q) == [defined |-> q.hasData, data |-> q.data]

setQueryData(q, data) ==
    [q EXCEPT !.hasData = TRUE, !.data = data, !.isInvalidated = FALSE]

\* An invalidation that leaves fresh data fresh
keepFresh(q, active) == q

\* Marks the query invalid; a query with a mounted observer refetches at once.
invalidateQueries(q, active) ==
    IF q.hasData \/ q.fetching \/ active
    THEN [q EXCEPT !.isInvalidated = TRUE, !.fetching = @ \/ active]
    ELSE q

\* What a mounting observer does: refetch when there is no data, when the
\* query is invalidated, or when staleTime has elapsed (stale).
IsStale(q, stale) == ~q.hasData \/ q.isInvalidated \/ stale

read(q, stale) == IF IsStale(q, stale) THEN [q EXCEPT !.fetching = TRUE] ELSE q

TodayActive(pg) == pg = "home"
ListsActive(pg) == pg = "history"

\* ------------------------------------------- realtime hook (useMoodSync.ts)
HookInstances == 2

Listeners(pg, enabled) == IF pg = "home" /\ enabled THEN HookInstances ELSE 0

handleEvent(cs, event, pg) ==
    CASE event.type = "mood:created" ->
           [cs EXCEPT !.store = addRealtimeEntry(@, event.payload),
                      !.today = invalidateQueries(@, TodayActive(pg)),
                      !.lists = invalidateQueries(@, ListsActive(pg))]
      [] event.type \in {"mood:updated", "mood:deleted"} ->
           [cs EXCEPT !.today = invalidateQueries(@, TodayActive(pg)),
                      !.lists = invalidateQueries(@, ListsActive(pg))]
      [] OTHER -> cs

\* eventListeners.forEach(cb => cb(event)) over n registered listeners
RECURSIVE emit(_, _, _, _)
emit(cs, event, pg, n) ==
    IF n = 0 THEN cs ELSE emit(handleEvent(cs, event, pg), event, pg, n - 1)

RECURSIVE emitAll(_, _, _, _)
emitAll(cs, events, pg, n) ==
    IF events = <<>> THEN cs
    ELSE emitAll(emit(cs, Head(events), pg, n), Tail(events), pg, n)

\* ------------------------------------------ mutation hooks (api/queries.ts)
CreateFailed == "Failed to create mood entry"

Client == [store |-> store, today |-> today, lists |-> lists, detail |-> detail]

DetailOf(d, id) == IF id \in DOMAIN d THEN d[id] ELSE NoDetail

\* useCreateMood.onMutate; u and u + 1 are the two uuid() results it draws
createOnMutate(cs, input, u, t) ==
    LET today1 == cancelQueries(cs.today)
        lists1 == cancelQueries(cs.lists)
        tempId == TempId(u)
        optimisticEntry == [id |-> tempId, category |-> input.category,
                            level |-> input.level, note |-> input.note,
                            timestamp |-> t]
        store1 == addEntry(cs.store, input.category, input.level, input.note,
                           u + 1, t)
        previousMoods == getQueryData(today1)
        today2 == IF ~today1.hasData THEN today1
                  ELSE setQueryData(today1, <<optimisticEntry>> \o today1.data)
    IN [cs |-> [cs EXCEPT !.store = store1, !.today = today2, !.lists = lists1],
        context |-> [tempId |-> tempId, previousMoods |-> previousMoods,
                     previousMood |-> getQueryData(NoDetail)]]

updateOnMutate(cs, id, updates) ==
    LET q == DetailOf(cs.detail, id)
        q1 == [cancelQueries(q) EXCEPT !.failureCount = 0, !.delay = 0]
        previousMood == getQueryData(q1)
        store1 == updateEntry(cs.store, id, updates)
        q2 == IF ~q1.hasData THEN q1
              ELSE [q1 EXCEPT !.data = Merge(@, updates)]
    IN [cs |-> [cs EXCEPT !.store = store1,
                          !.detail = IF id \in DOMAIN @
                                     THEN [@ EXCEPT ![id] = q2] ELSE @],
        context |-> [tempId |-> NoId, previousMoods |-> getQueryData(NoQuery),
                     previousMood |-> previousMood]]

deleteOnMutate(cs, id) ==
    LET today1 == cancelQueries(cs.today)
        lists1 == cancelQueries(cs.lists)
        previousMoods == getQueryData(today1)
        store1 == deleteEntry(cs.store, id)
        today2 == IF ~today1.hasData THEN today1
                  ELSE setQueryData(today1, WithoutId(today1.data, id))
    IN [cs |-> [cs EXCEPT !.store = store1, !.today = today2, !.lists = lists1],
        context |-> [tempId |-> NoId, previousMoods |-> previousMoods,
                     previousMood |-> getQueryData(NoDetail)]]

onSuccess(cs, m, data) ==
    IF m.kind = "create" /\ m.context.tempId # NoId
    THEN [cs EXCEPT !.store = confirmEntry(@, m.context.tempId, data)]
    ELSE cs

onError(cs, m) ==
    CASE m.kind = "create" ->
           LET today1 == IF m.context.previousMoods.defined
                         THEN setQueryData(cs.today, m.context.previousMoods.data)
                         ELSE cs.today
               store1 == IF m.context.tempId # NoId
                         THEN rejectEntry(cs.store, m.context.tempId, CreateFailed)
                         ELSE cs.store
           IN [cs EXCEPT !.today = today1, !.store = store1]
      [] m.kind = "update" ->
           IF m.context.previousMood.defined /\ m.id \in DOMAIN cs.detail
           THEN [cs EXCEPT !.detail[m.id].hasData = TRUE,
                           !.detail[m.id].data = m.context.previousMood.data]
           ELSE cs
      [] OTHER ->
           IF m.context.previousMoods.defined
           THEN [cs EXCEPT !.today =
                    setQueryData(@, m.context.previousMoods.data)]
           ELSE cs

\* A settle handler that invalidates the today query only
onSettledTodayOnly(cs, pg) ==
    [cs EXCEPT !.today = invalidateQueries(@, TodayActive(pg))]

onSettled(cs, pg) ==
    [cs EXCEPT !.lists = invalidateQueries(@, ListsActive(pg)),
               !.today = invalidateQueries(@, TodayActive(pg))]

\* A mutation that rolls back at every failed attempt
settleEager(cs, m, r, pg) ==
    IF r.ok
    THEN [cs |-> onSettled(onSuccess(cs, m, r.data), pg),
          m |-> [m EXCEPT !.status = "success", !.data = r.data,
                          !.emitted = @ \o r.events]]
    ELSE IF m.failureCount < MutationRetry
    THEN [cs |-> onError(cs, m),
          m |-> [m EXCEPT !.status = "retrying", !.failureCount = @ + 1,
                          !.error = r.error, !.emitted = @ \o r.events,
                          !.rollbacks = @ + 1]]
    ELSE [cs |-> onSettled(onError(cs, m), pg),
          m |-> [m EXCEPT !.status = "error", !.failureCount = @ + 1,
                          !.error = r.error, !.emitted = @ \o r.events,
                          !.rollbacks = @ + 1]]

\* Mutation.execute after the retryer's attempt has ended: r is what the
\* mock server returned or threw
settle(cs, m, r, pg) ==
    IF r.ok
    THEN [cs |-> onSettled(onSuccess(cs, m, r.data), pg),
          m |-> [m EXCEPT !.status = "success", !.data = r.data,
                          !.emitted = @ \o r.events]]
    ELSE IF m.failureCount < MutationRetry
    THEN [cs |-> cs,
          m |-> [m EXCEPT !.status = "retrying", !.failureCount = @ + 1,
                          !.error = r.error, !.emitted = @ \o r.events]]
    ELSE [cs |-> onSettled(onError(cs, m), pg),
          m |-> [m EXCEPT !.status = "error", !.failureCount = @ + 1,
                          !.error = r.error, !.emitted = @ \o r.events,
                          !.rollbacks = @ + 1]]

\* ------------------------------------------------------------------- state
NoCall == [op |-> "none"]

\* No useMoodSync instance is looked at on its own
NoSync == [phase |-> "none"]

Init ==
    /\ now = StartTime
    /\ storageFull = FALSE
    /\ database = <<SampleEntry>>
    /\ storage = database
    /\ page = "home"
    /\ enableRealtime \in BOOLEAN
    /\ store = [entries |-> <<>>, pendingEntries |-> EmptyMap, error |-> NoError]
    /\ today = NoQuery
    /\ lists = NoList
    /\ detail = EmptyMap
    /\ mutations = <<>>
    /\ eventListeners = <<>>
    /\ probe = NoCall
    /\ moodSync = NoSync

\* The ids of the cards on the mounted page (MoodEntryList)
DisplayedIds ==
    CASE page = "home" -> Ids(today.data)
      [] page = "history" -> Ids(database)
      [] OTHER -> {}

Settled(m) == m.status \in {"success", "error"}

\* A mutation of the MutationCache: its state (status, failureCount, error,
\* data, context) and what the run recorded about it for the properties
\* (ledgerBefore, optimisticId, overlaps, emitted, and rollbacks: the number
\* of times its onError handler ran).
Mutation(kind, id, input, r) ==
    [kind |-> kind, id |-> id, input |-> input, status |-> "inflight",
     failureCount |-> 0, error |-> "none", data |-> NoData,
     timestamp |-> IF kind = "create" THEN now ELSE 0,  \* mutationFn: Date.now()
     context |-> r.context,
     \* store.entries when mutate was called
     ledgerBefore |-> store.entries,
     \* the id of the entry addEntry put into the Ledger
     optimisticId |-> IF kind = "create" THEN Head(r.cs.store.entries).id
                      ELSE NoId,
     \* the mutations that had not settled when mutate was called
     overlaps |-> { k \in 1..Len(mutations) : ~Settled(mutations[k]) },
     \* the events its server calls published
     emitted |-> <<>>,
     rollbacks |-> 0]

Install(cs) ==
    /\ store' = cs.store
    /\ today' = cs.today
    /\ lists' = cs.lists
    /\ detail' = cs.detail

\* ----------------------------------------------------------------- intents
\* QuickMoodInput.handleSubmit: mutate, onMutate, then mutationFn calls
\* mockServer.moods.create with timestamp Date.now()
CreateMood(input) ==
    /\ page = "home"
    /\ Len(mutations) < MaxMutations
    /\ LET r == createOnMutate(Client, input, uuid(Len(mutations) + 1, 1), now)
       IN /\ Install(r.cs)
          /\ mutations' = Append(mutations,
                Mutation("create", NoId, input, r))
    /\ UNCHANGED <<moodSync, eventListeners, probe, now, storageFull, database, storage,
                   page, enableRealtime>>

\* MoodEntryCard.handleSave
UpdateMood(id, updates) ==
    /\ id \in DisplayedIds
    /\ Len(mutations) < MaxMutations
    /\ LET r == updateOnMutate(Client, id, updates)
       IN /\ Install(r.cs)
          /\ mutations' = Append(mutations,
                Mutation("update", id, updates, r))
    /\ UNCHANGED <<moodSync, eventListeners, probe, now, storageFull, database, storage,
                   page, enableRealtime>>

\* MoodEntryCard.handleDelete
DeleteMood(id) ==
    /\ id \in DisplayedIds
    /\ Len(mutations) < MaxMutations
    /\ LET r == deleteOnMutate(Client, id)
       IN /\ Install(r.cs)
          /\ mutations' = Append(mutations,
                Mutation("delete", id, EmptyMap, r))
    /\ UNCHANGED <<moodSync, eventListeners, probe, now, storageFull, database, storage,
                   page, enableRealtime>>

\* ------------------------------------------------- the mock server answers
Call(i, m, saveOk) ==
    CASE m.kind = "create" ->
           create(database, storage,
                  [category |-> m.input.category, level |-> m.input.level,
                   note |-> m.input.note, timestamp |-> m.timestamp],
                  uuid(i, 3 + m.failureCount), saveOk, now)
      [] m.kind = "update" -> update(database, storage, m.id, m.input, saveOk, now)
      [] OTHER -> delete(database, storage, m.id, saveOk, now)

\* The latency of mutation i's call ends: the server body runs, the
\* listeners run inside emit, then onSuccess / onError and onSettled.
MutationResolve(i) ==
    /\ i \in 1..Len(mutations)
    /\ mutations[i].status = "inflight"
    /\ LET m == mutations[i]
             r == Call(i, m, ~storageFull)
             cs1 == emitAll(Client, r.events, page,
                            Listeners(page, enableRealtime))
             s == settle(cs1, m, r, page)
         IN /\ database' = r.database
            /\ storage' = r.storage
            /\ Install(s.cs)
            /\ mutations' = [mutations EXCEPT ![i] = s.m]
    /\ UNCHANGED <<moodSync, eventListeners, probe, now, storageFull, page, enableRealtime>>

\* The retry delay of mutation i ends: mutationFn is called again
MutationRetryFire(i) ==
    /\ i \in 1..Len(mutations)
    /\ mutations[i].status = "retrying"
    /\ mutations' = [mutations EXCEPT
                       ![i].status = "inflight",
                       ![i].timestamp = IF mutations[i].kind = "create"
                                        THEN now ELSE @]
    /\ UNCHANGED <<moodSync, eventListeners, probe, now, storageFull, database, storage,
                   page, enableRealtime, store, today, lists, detail>>

\* ------------------------------------------------------------------ reads
\* Route change; the observers of the new page mount and read their query
Navigate(to) ==
    /\ to # page
    /\ page' = to
    /\ \E stale \in BOOLEAN :
         /\ today' = IF to = "home" THEN read(today, stale) ELSE today
         /\ lists' = IF to = "history" THEN read(lists, stale) ELSE lists
    /\ UNCHANGED <<moodSync, eventListeners, probe, now, storageFull, database, storage,
                   enableRealtime, store, detail, mutations>>

\* useTodayMoods: refetchInterval (and the first fetch of a mounted page)
RefetchToday ==
    /\ page = "home"
    /\ ~today.fetching
    /\ today' = [today EXCEPT !.fetching = TRUE]
    /\ UNCHANGED <<moodSync, eventListeners, probe, now, storageFull, database, storage,
                   page, enableRealtime, store, lists, detail, mutations>>

FetchTodayResolve ==
    /\ today.fetching
    /\ today' = [setQueryData(today, getToday(database, now))
                    EXCEPT !.fetching = FALSE]
    /\ UNCHANGED <<moodSync, eventListeners, probe, now, storageFull, database, storage,
                   page, enableRealtime, store, lists, detail, mutations>>

FetchListsResolve ==
    /\ lists.fetching
    /\ lists' = [lists EXCEPT !.hasData = TRUE, !.isInvalidated = FALSE,
                              !.fetching = FALSE]
    /\ UNCHANGED <<moodSync, eventListeners, probe, now, storageFull, database, storage,
                   page, enableRealtime, store, today, detail, mutations>>

\* useMood(id) mounts
UseMood(id) ==
    /\ id \notin DOMAIN detail
    /\ Cardinality(DOMAIN detail) < MaxDetailQueries
    /\ detail' = (id :> [NoDetail EXCEPT !.fetching = TRUE]) @@ detail
    /\ UNCHANGED <<moodSync, eventListeners, probe, now, storageFull, database, storage,
                   page, enableRealtime, store, today, lists, mutations>>

\* The latency of getById ends; a failed fetch is retried QueryRetry times
FetchDetailResolve(id) ==
    /\ id \in DOMAIN detail
    /\ detail[id].fetching
    /\ LET r == getById(database, storage, id)
           q == detail[id]
       IN /\ detail' = [detail EXCEPT ![id] =
                IF r.ok
                THEN [hasData |-> TRUE, data |-> r.data, fetching |-> FALSE,
                      failureCount |-> 0, error |-> "none", delay |-> 0]
                ELSE IF q.failureCount < QueryRetry
                THEN [q EXCEPT !.failureCount = @ + 1, !.error = r.error,
                               !.delay = retryDelay(q.failureCount)]
                ELSE [q EXCEPT !.fetching = FALSE, !.failureCount = @ + 1,
                               !.error = r.error, !.delay = 0]]
    /\ UNCHANGED <<moodSync, eventListeners, probe, now, storageFull, database, storage,
                   page, enableRealtime, store, today, lists, mutations>>

\* The origin's storage quota is used up, or space is freed again
StorageQuota ==
    /\ storageFull' = ~storageFull
    /\ UNCHANGED <<moodSync, eventListeners, probe, now, database, storage, page, enableRealtime, store, today,
                   lists, detail, mutations>>

DetailIds == Ids(database) \cup Ids(today.data) \cup Ids(store.entries)

Next ==
    \/ CreateMood(CreateInput(Len(mutations) + 1))
    \/ \E id \in DisplayedIds, updates \in UpdateInputs : UpdateMood(id, updates)
    \/ \E id \in DisplayedIds : DeleteMood(id)
    \/ \E i \in 1..MaxMutations : MutationResolve(i)
    \/ \E i \in 1..MaxMutations : MutationRetryFire(i)
    \/ \E to \in {"home", "history"} : Navigate(to)
    \/ RefetchToday
    \/ FetchTodayResolve
    \/ FetchListsResolve
    \/ StorageQuota

Spec == Init /\ [][Next]_vars

\* The home page with detail queries mounted (useMood)
NextDetail ==
    \/ CreateMood(CreateInput(Len(mutations) + 1))
    \/ \E id \in DisplayedIds, updates \in UpdateInputs : UpdateMood(id, updates)
    \/ \E id \in DisplayedIds : DeleteMood(id)
    \/ \E i \in 1..MaxMutations : MutationResolve(i)
    \/ \E i \in 1..MaxMutations : MutationRetryFire(i)
    \/ RefetchToday
    \/ FetchTodayResolve
    \/ \E id \in DetailIds : UseMood(id)
    \/ \E id \in DOMAIN detail : FetchDetailResolve(id)
    \/ StorageQuota

SpecDetail == Init /\ [][NextDetail]_vars

\* ------------------------------------- the event emitter taken on its own
\* mockEventEmitter with any callbacks: a callback is named by a number, and
\* whether it throws on an event is its own business (throwing, below).
Callbacks == 1..MaxCallbacks

Events == { [type |-> "mood:deleted", payload |-> [id |-> Uuid(0)]],
            [type |-> "sync:complete", payload |-> NoData] }

Range(s) == { s[k] : k \in 1..Len(s) }

\* The application's own variables, which the direct calls leave alone
app == <<now, storageFull, database, storage, page, enableRealtime,
         today, lists, detail, mutations, moodSync>>

AppIdle ==
    /\ now = StartTime
    /\ storageFull = FALSE
    /\ database = <<SampleEntry>>
    /\ storage = database
    /\ page = "home"
    /\ enableRealtime = FALSE
    /\ today = NoQuery
    /\ lists = NoList
    /\ detail = EmptyMap
    /\ mutations = <<>>
    /\ moodSync = NoSync

\* eventListeners.forEach(cb => cb(event)): the callbacks run in insertion
\* order; an exception thrown by one leaves forEach and emit at once
RECURSIVE forEach(_, _)
forEach(listeners, throwing) ==
    IF listeners = <<>> THEN [invoked |-> <<>>, threw |-> FALSE]
    ELSE IF Head(listeners) \in throwing
         THEN [invoked |-> <<Head(listeners)>>, threw |-> TRUE]
         ELSE LET rest == forEach(Tail(listeners), throwing)
              IN [invoked |-> <<Head(listeners)>> \o rest.invoked,
                  threw |-> rest.threw]

\* eventListeners.add(callback): a Set keeps one copy, at its first position
subscribe(listeners, cb) ==
    IF cb \in Range(listeners) THEN listeners ELSE Append(listeners, cb)

\* the handle subscribe returned: eventListeners.delete(callback)
unsubscribe(listeners, cb) == SelectSeq(listeners, LAMBDA c : c # cb)

InitBus ==
    /\ AppIdle
    /\ store = [entries |-> <<>>, pendingEntries |-> EmptyMap, error |-> NoError]
    /\ eventListeners = <<>>
    /\ probe = NoCall

Subscribe(cb) ==
    /\ eventListeners' = subscribe(eventListeners, cb)
    /\ probe' = [op |-> "subscribe", callback |-> cb]
    /\ UNCHANGED <<app, store>>

\* A handle is called; it may be called again after it has removed its callback
Unsubscribe(cb) ==
    /\ \/ cb \in Range(eventListeners)
       \/ probe.op = "unsubscribe" /\ probe.callback = cb
    /\ eventListeners' = unsubscribe(eventListeners, cb)
    /\ probe' = [op |-> "unsubscribe", callback |-> cb]
    /\ UNCHANGED <<app, store>>

\* mockEventEmitter.emit(event), with the callbacks that throw on this event
Emit(event, throwing) ==
    /\ LET r == forEach(eventListeners, throwing)
       IN probe' = [op |-> "emit", event |-> event,
                    registered |-> eventListeners, throwing |-> throwing,
                    invoked |-> r.invoked, threw |-> r.threw]
    /\ UNCHANGED <<app, store, eventListeners>>

NextBus ==
    \/ \E cb \in Callbacks : Subscribe(cb)
    \/ \E cb \in Callbacks : Unsubscribe(cb)
    \/ \E event \in Events, throwing \in SUBSET Callbacks : Emit(event, throwing)

SpecBus == InitBus /\ [][NextBus]_vars

\* ----------------------------------------------- the Ledger taken on its own
\* useMoodStore called directly: addEntry, rejectEntry, confirmEntry and
\* addRealtimeEntry in any order.  probe keeps the last call (op, args), the
\* store before it (before), the call before it (previous), and of the whole
\* run the entries it started with (base), the ids addEntry returned (issued),
\* the ids rejected so far in the order of rejection (rejected) and the
\* number of calls made (calls).
OrphanEntry ==
    [id |-> TempId(2), category |-> "focused", level |-> 2, note |-> NoNote,
     timestamp |-> 0]

\* Ledgers a session can start with: empty, or rehydrated from localStorage
BaseLedgers == { <<>>, <<SampleEntry>>, <<SampleEntry, OrphanEntry>> }

Messages == { CreateFailed, "Network error" }

\* Confirmed entries a caller can pass: two share an id
ConfirmedInputs ==
    { SampleEntry,
      [SampleEntry EXCEPT !.level = 5],
      [id |-> Uuid(9), category |-> "calm", level |-> 3, note |-> NoNote,
       timestamp |-> 1] }

InitLedger ==
    /\ AppIdle
    /\ eventListeners = <<>>
    /\ \E base \in BaseLedgers :
         /\ store = [entries |-> base, pendingEntries |-> EmptyMap,
                     error |-> NoError]
         /\ probe = [op |-> "none", args |-> <<>>, before |-> store,
                     previous |-> NoCall, base |-> base, issued |-> <<>>,
                     rejected |-> <<>>, calls |-> 0]

\* What every direct call records
Direct(op, args) ==
    [probe EXCEPT !.op = op, !.args = args, !.before = store,
                  !.previous = [op |-> probe.op, args |-> probe.args,
                                before |-> probe.before],
                  !.calls = @ + 1]

LedgerAdd ==
    /\ probe.calls < MaxCalls
    /\ LET input == CreateInput(Len(probe.issued) + 1)
           S1 == addEntry(store, input.category, input.level, input.note,
                          uuid(Len(probe.issued) + 1, 2), now)
           entry == Head(S1.entries)        \* what addEntry returns
       IN /\ store' = S1
          /\ probe' = [Direct("addEntry", <<input>>) EXCEPT
                          !.issued = Append(@, entry.id)]
    /\ UNCHANGED <<app, eventListeners>>

\* rejectEntry on an id that addEntry returned and that was not rejected yet
LedgerReject(tempId, message) ==
    /\ probe.calls < MaxCalls
    /\ tempId \in Range(probe.issued) \ Range(probe.rejected)
    /\ store' = rejectEntry(store, tempId, message)
    /\ probe' = [Direct("rejectEntry", <<tempId, message>>) EXCEPT
                    !.rejected = Append(@, tempId)]
    /\ UNCHANGED <<app, eventListeners>>

LedgerConfirm(tempId, entry) ==
    /\ probe.calls < MaxCalls
    /\ StartsWithTemp(tempId)
    /\ tempId \in Range(probe.issued) \cup Ids(probe.base)
    /\ store' = confirmEntry(store, tempId, entry)
    /\ probe' = Direct("confirmEntry", <<tempId, entry>>)
    /\ UNCHANGED <<app, eventListeners>>

LedgerRealtime(entry) ==
    /\ probe.calls < MaxCalls
    /\ store' = addRealtimeEntry(store, entry)
    /\ probe' = Direct("addRealtimeEntry", <<entry>>)
    /\ UNCHANGED <<app, eventListeners>>

TempIds == { TempId(u) : u \in 0..(10 * MaxCalls + 9) }

\* addEntry and rejectEntry only
NextRollback ==
    \/ LedgerAdd
    \/ \E tempId \in TempIds, message \in Messages : LedgerReject(tempId, message)

SpecRollback == InitLedger /\ [][NextRollback]_vars

NextLedger ==
    \/ LedgerAdd
    \/ \E tempId \in TempIds, message \in Messages : LedgerReject(tempId, message)
    \/ \E tempId \in TempIds, entry \in ConfirmedInputs : LedgerConfirm(tempId, entry)
    \/ \E entry \in ConfirmedInputs : LedgerRealtime(entry)

SpecLedger == InitLedger /\ [][NextLedger]_vars

\* ------------------------------------- every Ledger action, and restarts
\* setEntries: the entries are replaced; pendingEntries is not touched
setEntries(S, entries) == [S EXCEPT !.entries = entries]

\* persist (partialize keeps entries.slice(0, 500) and lastSyncAt) followed
\* by a reload: the rest of the state is the initial one
rehydrate(S) ==
    [entries |-> SubSeq(S.entries, 1, IF Len(S.entries) < 500
                                      THEN Len(S.entries) ELSE 500),
     pendingEntries |-> EmptyMap, error |-> NoError]

\* A first session: nothing persisted yet
InitPending ==
    /\ AppIdle
    /\ eventListeners = <<>>
    /\ store = [entries |-> <<>>, pendingEntries |-> EmptyMap, error |-> NoError]
    /\ probe = [op |-> "none", args |-> <<>>, before |-> store,
                previous |-> NoCall, base |-> <<>>, issued |-> <<>>,
                rejected |-> <<>>, calls |-> 0]

LedgerUpdate(id, updates) ==
    /\ probe.calls < MaxCalls
    /\ id \in Ids(store.entries)
    /\ store' = updateEntry(store, id, updates)
    /\ probe' = Direct("updateEntry", <<id, updates>>)
    /\ UNCHANGED <<app, eventListeners>>

LedgerDelete(id) ==
    /\ probe.calls < MaxCalls
    /\ id \in Ids(store.entries)
    /\ store' = deleteEntry(store, id)
    /\ probe' = Direct("deleteEntry", <<id>>)
    /\ UNCHANGED <<app, eventListeners>>

\* setEntries with a list read from the server
LedgerSetEntries(entries) ==
    /\ probe.calls < MaxCalls
    /\ store' = setEntries(store, entries)
    /\ probe' = Direct("setEntries", <<entries>>)
    /\ UNCHANGED <<app, eventListeners>>

\* The page is reloaded
Restart ==
    /\ probe.calls < MaxCalls
    /\ store' = rehydrate(store)
    /\ probe' = Direct("restart", <<>>)
    /\ UNCHANGED <<app, eventListeners>>

ServerLists == { <<>>, <<SampleEntry>> }

NextPending ==
    \/ LedgerAdd
    \/ \E tempId \in TempIds, message \in Messages : LedgerReject(tempId, message)
    \/ \E tempId \in TempIds, entry \in ConfirmedInputs : LedgerConfirm(tempId, entry)
    \/ \E entry \in ConfirmedInputs : LedgerRealtime(entry)
    \/ \E id \in Ids(store.entries), updates \in UpdateInputs : LedgerUpdate(id, updates)
    \/ \E id \in Ids(store.entries) : LedgerDelete(id)
    \/ \E entries \in ServerLists : LedgerSetEntries(entries)
    \/ Restart

SpecPending == InitPending /\ [][NextPending]_vars

\* ------------------------------------------------ the reads taken on their own
\* getAll, getToday and getStats of the mock server and getTodayEntries of
\* the Ledger, called at any instant on any stored content.  probe keeps the
\* last call (op, args) and what it returned (result).

\* date.setHours(0, 0, 0, 0) and date.setHours(23, 59, 59, 999): the first
\* and the last instant of the local day of the timestamp
getStartOfDay(timestamp) == LocalDay(timestamp).start

getEndOfDay(timestamp) ==
    LET d == LocalDay(timestamp)
    IN d.start + LocalDayLength(d.day) - 1

getEntriesInRange(S, start, end) ==
    SelectSeq(S.entries, LAMBDA entry :
        entry.timestamp >= start /\ entry.timestamp <= end)

getTodayEntries(S, t) ==
    getEntriesInRange(S, getStartOfDay(t), getEndOfDay(t))

Timestamps == 0..MaxStamp

Categories == <<"happy", "calm", "tired">>

\* The record stored at instant t
Stored(t) ==
    [id |-> Uuid(t), category |-> Categories[(t % 3) + 1],
     level |-> (t % 5) + 1, note |-> NoNote, timestamp |-> t]

\* Stored contents: up to MaxRecords records in any order (a create puts its
\* record first whatever timestamp the client gave it)
Databases ==
    UNION { { [k \in 1..n |-> Stored(f[k])] :
                f \in { g \in [1..n -> Timestamps] :
                           \A a, b \in 1..n : g[a] = g[b] => a = b } } :
            n \in 0..MaxRecords }

\* A filter field: left out (the empty set) or given one of the values
Optional(field, values) ==
    { [k \in {} |-> 0] } \cup { [k \in {field} |-> v] : v \in values }

Filters ==
    { s @@ e @@ c @@ l :
        s \in Optional("startDate", {0, 3}),
        e \in Optional("endDate", {0, 4}),
        c \in Optional("categories", {{}, {"happy"}}),
        l \in Optional("levels", {{}, {4, 5}}) }

StatsBounds == {0, 3, MaxStamp + 1}

InitReads ==
    /\ storageFull = FALSE
    /\ page = "home"
    /\ enableRealtime = FALSE
    /\ today = NoQuery
    /\ lists = NoList
    /\ detail = EmptyMap
    /\ mutations = <<>>
    /\ eventListeners = <<>>
    /\ moodSync = NoSync
    /\ now \in Timestamps
    /\ database \in Databases
    /\ storage = database
    /\ store = [entries |-> database, pendingEntries |-> EmptyMap,
                error |-> NoError]
    /\ probe = NoCall

GetAll(filter) ==
    /\ probe' = [op |-> "getAll", args |-> <<filter>>,
                 result |-> getAll(database, filter)]
    /\ UNCHANGED <<app, store, eventListeners>>

GetToday ==
    /\ probe' = [op |-> "getToday", args |-> <<>>,
                 result |-> getToday(database, now)]
    /\ UNCHANGED <<app, store, eventListeners>>

GetTodayEntries ==
    /\ probe' = [op |-> "getTodayEntries", args |-> <<>>,
                 result |-> getTodayEntries(store, now)]
    /\ UNCHANGED <<app, store, eventListeners>>

GetStats(startDate, endDate) ==
    /\ probe' = [op |-> "getStats", args |-> <<startDate, endDate>>,
                 result |-> getStats(database, startDate, endDate)]
    /\ UNCHANGED <<app, store, eventListeners>>

NextReads ==
    \/ \E filter \in Filters : GetAll(filter)
    \/ GetToday
    \/ GetTodayEntries
    \/ \E startDate, endDate \in StatsBounds : GetStats(startDate, endDate)

SpecReads == InitReads /\ [][NextReads]_vars

\* ---------------------------------- one useMoodSync instance on its own
\* moodSync is the instance: phase ("new", "mounted", "unmounted"), the values
\* its latest render closed over (enabled, and handler: the identity of
\* handleEvent, which changes with onMoodReceived), unsubscribeRef (0 for
\* null, else the callback its handle deletes), the useState values
\* isConnected and isSyncing, and timers: the sync() calls whose
\* sync:complete has not been emitted yet.  The consumer calls the functions
\* the latest render returned.  h is the pair the hook's functions work on:
\* ms (the instance) and listeners (the emitter's set).
setSyncing(S, syncing) == [S EXCEPT !.isSyncing = syncing]

\* setIsConnected on an unmounted component changes nothing
connect(h) ==
    IF ~h.ms.enabled \/ h.ms.unsubscribeRef # 0 THEN h
    ELSE [ms |-> [h.ms EXCEPT !.unsubscribeRef = h.ms.handler,
                              !.isConnected = IF h.ms.phase = "mounted"
                                              THEN TRUE ELSE @],
          listeners |-> subscribe(h.listeners, h.ms.handler)]

disconnect(h) ==
    IF h.ms.unsubscribeRef # 0
    THEN [ms |-> [h.ms EXCEPT !.unsubscribeRef = 0,
                              !.isConnected = IF h.ms.phase = "mounted"
                                              THEN FALSE ELSE @],
          listeners |-> unsubscribe(h.listeners, h.ms.unsubscribeRef)]
    ELSE h

\* The auto-connect effect of a render whose dependencies changed: the
\* cleanup of the render before (h), then the body with the new values
effect(h, enabled, handler) ==
    LET h1 == disconnect(h)
        h2 == [h1 EXCEPT !.ms.enabled = enabled, !.ms.handler = handler]
    IN IF enabled THEN connect(h2) ELSE disconnect(h2)

Hook == [ms |-> moodSync, listeners |-> eventListeners]

InstallHook(h) ==
    /\ moodSync' = h.ms
    /\ eventListeners' = h.listeners

\* What the hook's actions leave alone
idle == <<now, storageFull, database, storage, page, today, lists, detail,
          mutations, probe>>

InitSync ==
    /\ now = StartTime
    /\ storageFull = FALSE
    /\ database = <<SampleEntry>>
    /\ storage = database
    /\ page = "home"
    /\ enableRealtime \in BOOLEAN
    /\ today = NoQuery
    /\ lists = NoList
    /\ detail = EmptyMap
    /\ mutations = <<>>
    /\ probe = NoCall
    /\ eventListeners = <<>>
    /\ store = [entries |-> <<>>, pendingEntries |-> EmptyMap,
                error |-> NoError, isSyncing |-> FALSE]
    /\ moodSync = [phase |-> "new", enabled |-> FALSE, handler |-> 1,
                   unsubscribeRef |-> 0, isConnected |-> FALSE,
                   isSyncing |-> FALSE, timers |-> 0]

\* The first render and its effect
Mount ==
    /\ moodSync.phase = "new"
    /\ InstallHook(effect([Hook EXCEPT !.ms.phase = "mounted"],
                          enableRealtime, moodSync.handler))
    /\ UNCHANGED <<idle, enableRealtime, store>>

\* The setting is switched; a mounted instance renders again
SetEnableRealtime ==
    /\ enableRealtime' = ~enableRealtime
    /\ IF moodSync.phase = "mounted"
       THEN InstallHook(effect(Hook, ~enableRealtime, moodSync.handler))
       ELSE UNCHANGED <<moodSync, eventListeners>>
    /\ UNCHANGED <<idle, store>>

\* The consumer passes another onMoodReceived: handleEvent is a new function
ChangeHandler(handler) ==
    /\ moodSync.phase = "mounted"
    /\ handler # moodSync.handler
    /\ InstallHook(effect(Hook, moodSync.enabled, handler))
    /\ UNCHANGED <<idle, enableRealtime, store>>

\* The consumer calls connect()
Connect ==
    /\ moodSync.phase \in {"mounted", "unmounted"}
    /\ InstallHook(connect(Hook))
    /\ UNCHANGED <<idle, enableRealtime, store>>

\* The consumer calls disconnect()
Disconnect ==
    /\ moodSync.phase \in {"mounted", "unmounted"}
    /\ InstallHook(disconnect(Hook))
    /\ UNCHANGED <<idle, enableRealtime, store>>

\* The cleanup of the last effect
Unmount ==
    /\ moodSync.phase = "mounted"
    /\ InstallHook([disconnect(Hook) EXCEPT !.ms.phase = "unmounted"])
    /\ UNCHANGED <<idle, enableRealtime, store>>

\* sync(): both flags are set; the timer is started once invalidateQueries
\* has resolved
Sync ==
    /\ moodSync.phase = "mounted"
    /\ moodSync.timers < MaxSyncs
    /\ moodSync' = [moodSync EXCEPT !.isSyncing = TRUE, !.timers = @ + 1]
    /\ store' = setSyncing(store, TRUE)
    /\ UNCHANGED <<idle, enableRealtime, eventListeners>>

\* The 500 ms timer of a sync() fires: emit sync:complete.  Every registered
\* callback is a handleEvent of this instance.
SyncComplete ==
    /\ moodSync.timers > 0
    /\ IF eventListeners # <<>>
       THEN /\ store' = setSyncing(store, FALSE)
            /\ moodSync' = [moodSync EXCEPT
                               !.timers = @ - 1,
                               !.isSyncing = IF moodSync.phase = "mounted"
                                             THEN FALSE ELSE @]
       ELSE /\ store' = store
            /\ moodSync' = [moodSync EXCEPT !.timers = @ - 1]
    /\ UNCHANGED <<idle, enableRealtime, eventListeners>>

NextSync ==
    \/ Mount
    \/ SetEnableRealtime
    \/ \E handler \in Callbacks : ChangeHandler(handler)
    \/ Connect
    \/ Disconnect
    \/ Unmount
    \/ Sync
    \/ SyncComplete

SpecSync == InitSync /\ [][NextSync]_vars

\* The timer of a sync() that was started does fire
SpecSyncFair == SpecSync /\ WF_vars(SyncComplete)

\* --------------------------------------------- start-up seeding (queries.ts)
\* mockServer.seed: database.moods = entries; saveDatabase(database)
seed(db, entries) == entries

\* generateSampleData(): entries of the past days, sorted descending
SampleData ==
    << [id |-> Uuid(1), category |-> "grateful", level |-> 4,
        note |-> "Quick check-in", timestamp |-> 1],
       [id |-> Uuid(2), category |-> "tired", level |-> 2, note |-> NoNote,
        timestamp |-> 0] >>

NoFilter == [k \in {} |-> 0]

\* A seeding that does not look at the store
seedAlways(db, sampleData) == seed(db, sampleData)

\* initSampleData once the latency of its getAll has ended: getAll reads
\* the store and the continuation of the await runs in the same task
initSampleData(db, sampleData) ==
    LET response == getAll(db, NoFilter)
    IN IF Len(response.data) = 0 THEN seed(db, sampleData) ELSE db

\* The module has just been imported: initSampleData waits for getAll, on a
\* store that was loaded empty or with what an earlier session saved
InitSeed ==
    /\ now = StartTime
    /\ storageFull = FALSE
    /\ database \in { <<>>, <<SampleEntry>> }
    /\ storage = database
    /\ page = "home"
    /\ enableRealtime \in BOOLEAN
    /\ store = [entries |-> <<>>, pendingEntries |-> EmptyMap, error |-> NoError]
    /\ today = NoQuery
    /\ lists = NoList
    /\ detail = EmptyMap
    /\ mutations = <<>>
    /\ eventListeners = <<>>
    /\ moodSync = NoSync
    /\ probe = [op |-> "initSampleData", pending |-> TRUE, seeded |-> FALSE,
                issued |-> 0, before |-> database]

\* probe keeps whether the task is still waiting (pending), whether it
\* seeded, how many mutations had been issued when it ran and the store it
\* found (before).  A save that throws leaves the store replaced.
InitSampleDataResolve ==
    /\ probe.op = "initSampleData"
    /\ probe.pending
    /\ database' = initSampleData(database, SampleData)
    /\ storage' = IF database' # database /\ ~storageFull THEN database'
                  ELSE storage
    /\ probe' = [probe EXCEPT !.pending = FALSE,
                              !.seeded = database' # database,
                              !.issued = Len(mutations),
                              !.before = database]
    /\ UNCHANGED <<now, storageFull, page, enableRealtime, store, today, lists,
                   detail, mutations, eventListeners, moodSync>>

NextSeed ==
    \/ InitSampleDataResolve
    \/ CreateMood(CreateInput(Len(mutations) + 1))
    \/ \E i \in 1..MaxMutations : MutationResolve(i)
    \/ \E i \in 1..MaxMutations : MutationRetryFire(i)
    \/ RefetchToday
    \/ FetchTodayResolve
    \/ StorageQuota

SpecSeed == InitSeed /\ [][NextSeed]_vars

\* ------------------------------------------------ creates while time passes
\* The home page with the clock running: Date.now() grows between the tasks,
\* so an entry's timestamp tells when its intent (or its retry) was issued.
Tick ==
    /\ now < MaxTime
    /\ now' = now + 1
    /\ UNCHANGED <<storageFull, database, storage, page, enableRealtime, store,
                   today, lists, detail, mutations, eventListeners, probe,
                   moodSync>>

NextClock ==
    \/ CreateMood(CreateInput(Len(mutations) + 1))
    \/ \E i \in 1..MaxMutations : MutationResolve(i)
    \/ Tick

SpecClock == Init /\ [][NextClock]_vars

\* -------------------------------------------------------------- properties
Entries(s) == { s[k] : k \in 1..Len(s) }

\* The confirmed copies the Ledger holds
ConfirmedEntries == { e \in Entries(store.entries) : ~StartsWithTemp(e.id) }

\* level, category and note of the entries of s with the given id
FieldsOf(s, id) ==
    { [level |-> e.level, category |-> e.category, note |-> e.note] :
        e \in { x \in Entries(s) : x.id = id } }

\* Mutation i reaches a terminal state in this step
Succeeds(i) ==
    mutations[i].status # "success" /\ mutations'[i].status = "success"

Fails(i) == mutations[i].status # "error" /\ mutations'[i].status = "error"

AllSettled == \A i \in 1..Len(mutations) : Settled(mutations[i])

\* C1: when two creates overlap (the second is issued before the first has
\* settled) and both have succeeded, the Ledger holds both server entries
\* under two distinct permanent ids, and neither the Ledger nor pendingEntries
\* holds an id with the temp- prefix.
C1_ConcurrentCreatesConfirmed ==
    \A a, b \in 1..Len(mutations) :
        ( /\ a \in mutations[b].overlaps
          /\ mutations[a].kind = "create" /\ mutations[b].kind = "create"
          /\ mutations[a].status = "success" /\ mutations[b].status = "success" )
        => /\ mutations[a].data.id # mutations[b].data.id
           /\ {mutations[a].data, mutations[b].data} \subseteq ConfirmedEntries
           /\ \A e \in Entries(store.entries) : ~StartsWithTemp(e.id)
           /\ \A k \in DOMAIN store.pendingEntries : ~StartsWithTemp(k)

\* C2: in the step in which a create mutation fails for good (its retry has
\* failed too), the entry that its addEntry put into the Ledger is gone from
\* entries and pendingEntries, the store error is 'Failed to create mood
\* entry', and when it is the only mutation of the run the Ledger is again
\* what it was when mutate was called.
C2_CreateFailureRollback ==
    [][ \A i \in 1..Len(mutations) :
          (mutations[i].kind = "create" /\ Fails(i))
          => /\ store'.error = CreateFailed
             /\ mutations[i].optimisticId \notin Ids(store'.entries)
             /\ mutations[i].optimisticId \notin DOMAIN store'.pendingEntries
             /\ (Len(mutations) = 1
                   => store'.entries = mutations[i].ledgerBefore) ]_vars

\* C3: in the step in which an update mutation fails for good, the Ledger
\* entry with the mutation's id has the level, category and note it had when
\* mutate was called, and the detail(id) cache holds the snapshot onMutate
\* took.
C3_UpdateFailureRollback ==
    [][ \A i \in 1..Len(mutations) :
          (mutations[i].kind = "update" /\ Fails(i))
          => /\ FieldsOf(store'.entries, mutations[i].id)
                  = FieldsOf(mutations[i].ledgerBefore, mutations[i].id)
             /\ (mutations[i].context.previousMood.defined
                   /\ mutations[i].id \in DOMAIN detail')
                => detail'[mutations[i].id].data
                     = mutations[i].context.previousMood.data ]_vars

\* C4: in the step in which a delete mutation fails for good, the Ledger
\* holds the entry that deleteEntry removed, at the position it had when
\* mutate was called, and the today cache holds the snapshot onMutate took.
C4_DeleteFailureRollback ==
    [][ \A i \in 1..Len(mutations) :
          (mutations[i].kind = "delete" /\ Fails(i))
          => /\ \A k \in 1..Len(mutations[i].ledgerBefore) :
                   mutations[i].ledgerBefore[k].id = mutations[i].id
                   => /\ k <= Len(store'.entries)
                      /\ store'.entries[k] = mutations[i].ledgerBefore[k]
             /\ mutations[i].context.previousMoods.defined
                => today'.data = mutations[i].context.previousMoods.data ]_vars

\* C5: once every mutation of a run has settled, the confirmed entries of
\* the Ledger are the entries of the Record Store, with the same ids and the
\* same field values.  (The Ledger and the Record Store change only in steps
\* of a mutation, so what holds when the last one settles is what holds from
\* then on.)
C5_LedgerMatchesRecordStore ==
    (mutations # <<>> /\ AllSettled) => ConfirmedEntries = Entries(database)

\* C6: while a create mutation that wrote its optimistic entry into a
\* populated today cache has not settled, no result of a today fetch takes
\* that entry out of the cache (steps of no mutation change the today data
\* only by writing the result of a fetch).
C6_OptimisticPrecedence ==
    [][ \A i \in 1..Len(mutations) :
          ( /\ mutations' = mutations
            /\ mutations[i].kind = "create" /\ ~Settled(mutations[i])
            /\ mutations[i].context.previousMoods.defined
            /\ mutations[i].context.tempId \in Ids(today.data) )
          => mutations[i].context.tempId \in Ids(today'.data) ]_vars

Invalidated(q) == (q.hasData \/ q.fetching) => q.isInvalidated

\* C8: in the step in which a create, update or delete mutation reaches its
\* terminal state, by success or by failure, the today query and the list
\* family are both marked invalid, and the one with a mounted observer is
\* being refetched.
C8_SettleInvalidates ==
    [][ \A i \in 1..Len(mutations) :
          (Succeeds(i) \/ Fails(i))
          => /\ Invalidated(today') /\ Invalidated(lists')
             /\ TodayActive(page') => today'.fetching
             /\ ListsActive(page') => lists'.fetching ]_vars

\* A mutation has failed and one has succeeded, and both query families,
\* which held data, are marked invalid.
C8_Witness ==
    /\ \E i \in 1..Len(mutations) : mutations[i].status = "error"
    /\ \E i \in 1..Len(mutations) : mutations[i].status = "success"
    /\ today.hasData /\ today.isInvalidated
    /\ lists.hasData /\ lists.isInvalidated

EventType(kind) ==
    CASE kind = "create" -> "mood:created"
      [] kind = "update" -> "mood:updated"
      [] OTHER -> "mood:deleted"

\* C9: a mutation whose server call succeeded has published exactly one
\* event, of the type of its operation, carrying the entry the server
\* returned (for delete the removed id), and the Record Store and its
\* persisted snapshot reflected the mutation when the event was published;
\* a call that threw published nothing.
C9_EventAfterDurableMutation ==
    \A i \in 1..Len(mutations) :
        LET m == mutations[i]
        IN IF m.status = "success"
           THEN /\ Len(m.emitted) = 1
                /\ m.emitted[1].type = EventType(m.kind)
                /\ m.emitted[1].payload =
                     IF m.kind = "delete" THEN [id |-> m.id] ELSE m.data
                /\ m.emitted[1].durable
           ELSE m.emitted = <<>>

\* A create and an update or delete have both succeeded and published.
C9_Witness ==
    \E i, j \in 1..Len(mutations) :
        /\ mutations[i].kind = "create" /\ mutations[i].status = "success"
        /\ mutations[j].kind # "create" /\ mutations[j].status = "success"
        /\ Len(mutations[i].emitted) = 1 /\ Len(mutations[j].emitted) = 1

EventTypes == {"mood:created", "mood:updated", "mood:deleted", "sync:complete"}

\* C10: a call of update or delete that ends while its id is not in the
\* Record Store throws 'Mood not found', leaves the Record Store and its
\* persisted snapshot as they were and publishes no event; a getById that
\* ends while its id is not in the Record Store fails the same way and
\* delivers no data; and every event published has one of the four event
\* types.
C10_NotFoundOutcome ==
    [][ /\ \A i \in 1..Len(mutations) :
             ( /\ mutations[i].status = "inflight"
               /\ mutations'[i].status # "inflight"
               /\ mutations[i].kind \in {"update", "delete"}
               /\ mutations[i].id \notin Ids(database) )
             => /\ mutations'[i].status \in {"retrying", "error"}
                /\ mutations'[i].error = NotFound
                /\ database' = database /\ storage' = storage
                /\ mutations'[i].emitted = mutations[i].emitted
        /\ \A id \in DOMAIN detail :
             ( /\ mutations' = mutations
               /\ detail[id].fetching /\ detail'[id] # detail[id]
               /\ id \notin Ids(database) )
             => /\ detail'[id].error = NotFound
                /\ detail'[id].hasData = detail[id].hasData
                /\ detail'[id].data = detail[id].data
                /\ database' = database /\ storage' = storage
        /\ \A i \in 1..Len(mutations') : \A k \in 1..Len(mutations'[i].emitted) :
             mutations'[i].emitted[k].type \in EventTypes ]_vars

\* An update or delete and a getById have each failed on an id the Record
\* Store does not hold, and nothing was published for the mutation.
C10_Witness ==
    /\ \E i \in 1..Len(mutations) :
         /\ mutations[i].kind \in {"update", "delete"}
         /\ mutations[i].status = "error" /\ mutations[i].error = NotFound
         /\ mutations[i].id \notin Ids(database)
         /\ mutations[i].emitted = <<>>
    /\ \E id \in DOMAIN detail :
         /\ detail[id].error = NotFound /\ ~detail[id].fetching
         /\ id \notin Ids(database)
    /\ \E i \in 1..Len(mutations) : mutations[i].emitted # <<>>

\* C11: when emit runs with several registered callbacks and one of them
\* throws, every other registered callback is still invoked with the event.
C11_ListenerFailureIsolation ==
    probe.op = "emit"
    => \A cb \in Range(probe.registered) :
           cb \notin probe.throwing => cb \in Range(probe.invoked)

\* C12: emit invokes the callbacks registered at that moment, each exactly
\* once and in registration order, before it returns; a callback whose
\* handle has been called is registered no more and so is not invoked by a
\* later emit.
C12_EventFanOut ==
    [][ /\ probe'.op = "emit"
           => probe'.invoked = eventListeners
        /\ probe'.op = "unsubscribe"
           => probe'.callback \notin Range(eventListeners') ]_vars

\* C13: after addEntry calls each followed, in any order, by rejectEntry on
\* the id that addEntry returned, the Ledger holds exactly the entries it
\* started with, in the same order, pendingEntries holds none of the ids,
\* and the error field is the message of the last rejection; while some ids
\* are not rejected yet the other entries are the ones it started with.
C13_LedgerRollback ==
    /\ SelectSeq(store.entries,
                 LAMBDA e : e.id \notin Range(probe.issued)) = probe.base
    /\ \A id \in Range(probe.rejected) :
         id \notin Ids(store.entries) /\ id \notin DOMAIN store.pendingEntries
    /\ (probe.issued # <<>> /\ Range(probe.rejected) = Range(probe.issued))
       => /\ store.entries = probe.base
          /\ probe.op = "rejectEntry" /\ store.error = probe.args[2]

\* Two adds were rejected in the other order than they were made, on a
\* Ledger that held entries before.
C13_Witness ==
    /\ Len(probe.issued) = 2 /\ Len(probe.rejected) = 2
    /\ probe.rejected[1] = probe.issued[2]
    /\ probe.base # <<>>
    /\ probe.previous.op = "rejectEntry"
    /\ probe.previous.args[2] # probe.args[2]
    /\ store.entries = probe.base

\* The last two calls were confirmEntry with the same arguments, and the
\* first of them found the temporary id in the Ledger
ConfirmedTwice ==
    /\ probe.op = "confirmEntry" /\ probe.previous.op = "confirmEntry"
    /\ probe.previous.args = probe.args
    /\ probe.args[1] \in Ids(probe.previous.before.entries)

\* C14: a second confirmEntry(tempId, e), right after a first one that
\* replaced the entry and removed tempId from pendingEntries, leaves entries,
\* pendingEntries and error as they were.
C14_IdempotentConfirm == ConfirmedTwice => store = probe.before

\* The second confirm has run; the first one had replaced a pending entry.
C14_Witness ==
    /\ ConfirmedTwice
    /\ probe.args[1] \in DOMAIN probe.previous.before.pendingEntries
    /\ probe.args[2] \in Entries(store.entries)
    /\ probe.args[1] \notin Ids(store.entries)

Count(s, id) == Cardinality({ k \in 1..Len(s) : s[k].id = id })

\* The last two calls were addRealtimeEntry with entries of the same id
IngestedTwice ==
    /\ probe.op = "addRealtimeEntry" /\ probe.previous.op = "addRealtimeEntry"
    /\ probe.previous.args[1].id = probe.args[1].id

\* C15: of two addRealtimeEntry calls with entries of the same id the second
\* changes nothing, and a Ledger that held no entry with that id holds
\* exactly one afterwards (one that held some holds as many as before).
C15_RealtimeDedup ==
    IngestedTwice
    => /\ store = probe.before
       /\ Count(store.entries, probe.args[1].id) =
            IF Count(probe.previous.before.entries, probe.args[1].id) = 0
            THEN 1
            ELSE Count(probe.previous.before.entries, probe.args[1].id)

\* The same id was ingested twice, with different field values, into a
\* Ledger that did not hold it.
C15_Witness ==
    /\ IngestedTwice
    /\ probe.previous.args[1] # probe.args[1]
    /\ Count(probe.previous.before.entries, probe.args[1].id) = 0
    /\ Count(store.entries, probe.args[1].id) = 1

\* C19: confirmEntry(tempId, e) with an entry of id tempId at index i puts e
\* at index i, keeps the length of the Ledger and every other entry, and
\* takes tempId out of pendingEntries, whose other keys and the error field
\* stay; with no entry of id tempId the entries stay as they were.
C19_ConfirmFrame ==
    probe.op = "confirmEntry"
    => LET tempId == probe.args[1]
           e == probe.args[2]
           old == probe.before
           i == FindIndex(old.entries, tempId)
       IN /\ Len(store.entries) = Len(old.entries)
          /\ \A k \in 1..Len(old.entries) :
               store.entries[k] = IF k = i THEN e ELSE old.entries[k]
          /\ i = 0 => store.entries = old.entries
          /\ tempId \notin DOMAIN store.pendingEntries
          /\ DOMAIN store.pendingEntries = DOMAIN old.pendingEntries \ {tempId}
          /\ \A k \in DOMAIN store.pendingEntries :
               store.pendingEntries[k] = old.pendingEntries[k]
          /\ store.error = old.error

\* A pending entry that was not at the head of the Ledger has been confirmed
\* in place, while another entry is still pending.
C19_Witness ==
    /\ probe.op = "confirmEntry"
    /\ FindIndex(probe.before.entries, probe.args[1]) >= 2
    /\ probe.args[1] \in DOMAIN probe.before.pendingEntries
    /\ store.entries[FindIndex(probe.before.entries, probe.args[1])]
         = probe.args[2]
    /\ store.pendingEntries # EmptyMap

\* C20: whatever the interleaving of create mutations, their confirmations
\* and rejections and the mood:created events the listeners receive (the
\* event of a create is handled before its success handler), no two Ledger
\* entries have the same id, temporary or permanent.
C20_UniqueLedgerIds ==
    \A k, l \in 1..Len(store.entries) :
        store.entries[k].id = store.entries[l].id => k = l

\* Both listeners have handled the events of two creates before the success
\* handlers ran: the Ledger holds the two confirmed entries next to the two
\* temporary ones.
C20_Witness ==
    /\ enableRealtime
    /\ \E a, b \in 1..Len(mutations) :
         /\ a # b
         /\ mutations[a].kind = "create" /\ mutations[a].status = "success"
         /\ mutations[b].kind = "create" /\ mutations[b].status = "success"
         /\ a \in mutations[b].overlaps
         /\ Count(store.entries, mutations[a].data.id) = 1
         /\ Count(store.entries, mutations[b].data.id) = 1
         /\ Count(store.entries, mutations[a].optimisticId) = 1
         /\ Count(store.entries, mutations[b].optimisticId) = 1

\* C16  Filter conjunction: getAll returns exactly the records that satisfy
\* every field present in the filter (timestamp >= startDate, timestamp <=
\* endDate, category in categories, level in levels), a present 0 or empty set
\* included, sorted by timestamp descending, with total the number returned.
Satisfies(m, filter) ==
    /\ "startDate" \in DOMAIN filter => m.timestamp >= filter.startDate
    /\ "endDate" \in DOMAIN filter => m.timestamp <= filter.endDate
    /\ "categories" \in DOMAIN filter => m.category \in filter.categories
    /\ "levels" \in DOMAIN filter => m.level \in filter.levels

Descending(s) ==
    \A k \in 1..(Len(s) - 1) : s[k].timestamp >= s[k + 1].timestamp

\* s holds each member of the set once and nothing else
Exactly(s, set) == Entries(s) = set /\ Len(s) = Cardinality(set)

C16_FilterConjunction ==
    probe.op = "getAll" =>
        /\ Exactly(probe.result.data,
                   { m \in Entries(database) : Satisfies(m, probe.args[1]) })
        /\ Descending(probe.result.data)
        /\ probe.result.total = Len(probe.result.data)

\* C17  Today boundary: getToday and the Ledger's getTodayEntries return
\* exactly the entries from the first instant of the current local day to its
\* last (the next day's first instant is outside), and getToday's result is
\* sorted by timestamp descending.
FirstInstant == LocalDay(now).start
LastInstant == FirstInstant + LocalDayLength(LocalDay(now).day) - 1

OfToday(s) ==
    { e \in Entries(s) : e.timestamp >= FirstInstant /\ e.timestamp <= LastInstant }

C17_TodayBoundary ==
    /\ probe.op = "getToday" =>
          /\ Exactly(probe.result, OfToday(database))
          /\ Descending(probe.result)
    /\ probe.op = "getTodayEntries" =>
          Exactly(probe.result, OfToday(store.entries))

\* C18  Stats empty set: getStats over a range that matches no record returns
\* average 0, count 0 and an empty byCategory; over a range that matches some,
\* count is the number of matching records and the sum of the byCategory counts.
RECURSIVE SumOver(_, _)
SumOver(f, keys) ==
    IF keys = {} THEN 0
    ELSE LET k == CHOOSE x \in keys : TRUE
         IN f[k] + SumOver(f, keys \ {k})

InRange == { m \in Entries(database) :
                m.timestamp >= probe.args[1] /\ m.timestamp <= probe.args[2] }

C18_StatsEmptySet ==
    probe.op = "getStats" =>
        /\ InRange = {} =>
              /\ probe.result.average = Number(0)
              /\ probe.result.count = 0
              /\ DOMAIN probe.result.byCategory = {}
        /\ InRange # {} =>
              /\ probe.result.count = Cardinality(InRange)
              /\ probe.result.count =
                    SumOver(probe.result.byCategory,
                            DOMAIN probe.result.byCategory)

\* Records are stored, and none of them is in the range asked for
C18_Witness ==
    /\ probe.op = "getStats"
    /\ database # <<>>
    /\ InRange = {}
    /\ probe.result = [average |-> Number(0), count |-> 0,
                       byCategory |-> CountByCategory(<<>>)]

\* C21  Ledger ordering: in every reachable state, also while several creates
\* are in flight and after their realtime events and confirmations arrived,
\* the Ledger entries are sorted by timestamp descending.
C21_LedgerOrdering == Descending(store.entries)

\* C22  Not-found is not retried: when getById, update or delete fails because
\* the id is absent from the Record Store, the remote operation is invoked
\* once for that request (no retry is scheduled, no second failure counted).
C22_NotFoundNotRetried ==
    /\ \A i \in 1..Len(mutations) :
          mutations[i].error = NotFound =>
              /\ mutations[i].status # "retrying"
              /\ mutations[i].failureCount <= 1
    /\ \A id \in DOMAIN detail :
          detail[id].error = NotFound =>
              /\ ~detail[id].fetching
              /\ detail[id].failureCount <= 1

\* C23  Bounded retries: a read query whose fetch keeps failing is attempted
\* at most 3 times, sleeping min(1000 * 2^n, 30000) ms before retry n (n = 0
\* for the first retry); a mutation whose call keeps failing is attempted at
\* most 2 times, and its failure handler runs once, after the last attempt.
C23_BoundedRetries ==
    /\ \A id \in DOMAIN detail :
          LET q == detail[id]
          IN /\ q.failureCount <= 3
             /\ q.fetching => q.failureCount <= 2
             /\ (q.fetching /\ q.failureCount > 0) =>
                   q.delay = IF 1000 * 2^(q.failureCount - 1) < 30000
                             THEN 1000 * 2^(q.failureCount - 1) ELSE 30000
    /\ \A i \in 1..Len(mutations) :
          LET m == mutations[i]
          IN /\ m.failureCount <= 2
             /\ ~Settled(m) => m.failureCount <= 1
             /\ m.rollbacks = IF m.status = "error" THEN 1 ELSE 0
             /\ m.rollbacks = 1 => m.failureCount = 2

\* A query that gave up after its third attempt, next to a mutation that
\* rolled back after its second
C23_Witness ==
    /\ \E id \in DOMAIN detail :
          /\ ~detail[id].fetching
          /\ detail[id].failureCount = 3
    /\ \E i \in 1..Len(mutations) :
          /\ mutations[i].status = "error"
          /\ mutations[i].failureCount = 2
          /\ mutations[i].rollbacks = 1

\* C24  Persistence failure on create: when saving the Record Store fails
\* during create, the call fails with the storage error, the in-memory Record
\* Store has the new entry at its head (no rollback), the saved snapshot is
\* the old one, and no event is published for that attempt.
C24_PersistenceFailureOnCreate ==
    [][\A i \in 1..Len(mutations) :
          (/\ mutations[i].kind = "create"
           /\ mutations[i].status = "inflight"
           /\ storageFull
           /\ mutations'[i].status # "inflight") =>
              /\ mutations'[i].status \in {"retrying", "error"}
              /\ mutations'[i].error = StorageError
              /\ Len(database') = Len(database) + 1
              /\ Tail(database') = database
              /\ ~StartsWithTemp(Head(database').id)
              /\ Head(database').category = mutations[i].input.category
              /\ Head(database').level = mutations[i].input.level
              /\ Head(database').timestamp = mutations[i].timestamp
              /\ storage' = storage
              /\ mutations'[i].emitted = mutations[i].emitted]_vars

\* A create whose save failed: its record is in memory and not in storage
C24_Witness ==
    \E i \in 1..Len(mutations) :
        /\ mutations[i].kind = "create"
        /\ mutations[i].status \in {"retrying", "error"}
        /\ mutations[i].error = StorageError
        /\ mutations[i].emitted = <<>>
        /\ Uuid(uuid(i, 3)) \in Ids(database) \ Ids(storage)

\* C25  At most one record per create intent: each create mutation adds at
\* most one record to the Record Store, also when its first attempt failed
\* after the store was changed and the mutation was retried.
\* The records the calls of mutation i put into the Record Store
RecordsOf(i) ==
    { k \in 1..Len(database) :
        /\ ~StartsWithTemp(database[k].id)
        /\ database[k].id.uuid \div 10 = i }

C25_OneRecordPerCreate ==
    \A i \in 1..Len(mutations) :
        mutations[i].kind = "create" => Cardinality(RecordsOf(i)) <= 1

\* C26  Rollback does not clobber other mutations: when a failed create or
\* delete restores its snapshot into the today cache, every entry that a
\* different mutation wrote there after the snapshot was taken (its
\* optimistic entry, or its record brought by a refetch) is still there.
\* The ids mutation j writes: its optimistic entry's and its records'
WrittenBy(j) ==
    IF mutations[j].kind # "create" THEN {}
    ELSE {mutations[j].context.tempId} \cup
         { id \in Ids(database) : ~StartsWithTemp(id) /\ id.uuid \div 10 = j }

C26_RollbackKeepsOthers ==
    [][\A i \in 1..Len(mutations) :
          (/\ mutations[i].kind \in {"create", "delete"}
           /\ mutations[i].status = "inflight"
           /\ mutations'[i].status = "error"
           /\ mutations[i].context.previousMoods.defined) =>
              \A j \in 1..Len(mutations) \ {i} :
                  \A id \in (WrittenBy(j) \cap Ids(today.data))
                            \ Ids(mutations[i].context.previousMoods.data) :
                      id \in Ids(today'.data)]_vars

\* C27  Pending tracking matches the Ledger: in every state reachable by the
\* Ledger's actions and by persist / rehydrate across a restart, an id is a
\* key of pendingEntries exactly when the Ledger holds an entry with that id
\* and the id has the temp- prefix.
C27_PendingMatchesLedger ==
    DOMAIN store.pendingEntries =
        { id \in Ids(store.entries) : StartsWithTemp(id) }

\* C28  Manual sync terminates: after sync() was called, the hook's isSyncing
\* (while the hook is mounted) and the store's isSyncing eventually are false
\* again, whether or not the hook is subscribed when sync:complete fires.
Syncing ==
    \/ store.isSyncing
    \/ moodSync.phase = "mounted" /\ moodSync.isSyncing

C28_SyncTerminates == Syncing ~> ~Syncing

\* C30  Subscription lifecycle: the instance has at most one listener
\* registered at any time, none while realtime is disabled or after unmount,
\* and isConnected is true exactly when its listener is registered.
C30_SubscriptionLifecycle ==
    /\ Len(eventListeners) <= 1
    /\ (~enableRealtime \/ moodSync.phase # "mounted") => eventListeners = <<>>
    /\ moodSync.isConnected <=> eventListeners # <<>>

\* C29  Sample-data seeding never discards user data: whatever the order of
\* the start-up initSampleData task and the user's creates, the seed replaces
\* the Record Store only when it is empty at that moment, and no step of the
\* start-up removes a record from the Record Store.
C29_SeedKeepsUserData ==
    [][/\ (probe.pending /\ ~probe'.pending /\ database' # database) =>
             database = <<>>
       /\ \A id \in Ids(database) : id \in Ids(database')]_vars

\* The seed ran after a create was issued and before its call resolved; the
\* sample data and the user's record are both in the Record Store
C29_Witness ==
    /\ probe.op = "initSampleData"
    /\ probe.seeded
    /\ probe.issued >= 1
    /\ mutations[1].status = "success"
    /\ mutations[1].data.id \in Ids(database)
    /\ Ids(SampleData) \subseteq Ids(database)

====
